---- MODULE Spec2Model ----
(***************************************************************************)
(* Model of the stream registry of quinn (src/src/streams.rs): the shared, *)
(* lock-protected Inner state behind Streams and StreamRef.  Every method  *)
(* takes the mutex for its whole body, so each method is one atomic action.*)
(* The frame codec (src/src/frame.rs) is a set of pure functions, modelled *)
(* as operators on byte sequences and exercised by CodecSpec.               *)
(***************************************************************************)
EXTENDS Integers, Sequences, FiniteSets, TLC

\* ---------------------------------------------------------------- bounds
MaxId == 8          \* stream ids and advertised maxima range over 0..MaxId
MaxOps == 3         \* at most this many method calls on the registry
MaxOffset == 1      \* offsets written by set_offset range over 0..MaxOffset
MaxData == 2        \* codec: stream data and ASCII close reasons have up to MaxData bytes
MaxBlocks == 3      \* codec: an AckFrame has 1..MaxBlocks blocks
MaxPad == 3         \* codec: padding counts and runs of zero bytes go up to MaxPad

Ids == 0..MaxId
Offsets == 0..MaxOffset

\* ---------------------------------------------------------------- values
\* Option<u64>::None; Some(v) is the number v itself
None == -1

Sides == {"Client", "Server"}
Dirs == {"Bidi", "Uni"}

\* Side::to_bit (types.rs, not part of the sources at hand): 0 or 1
SideToBit(s) == IF s = "Client" THEN 0 ELSE 1

\* Dir::to_bit
DirToBit(d) == IF d = "Bidi" THEN 0 ELSE 2

\* Stream::new
StreamNew == [offset |-> 0, queued |-> <<>>, received |-> <<>>]

\* OpenStreams::new
OpenStreamsNew == [next |-> None, max |-> 0, updates |-> <<>>]

\* Frame::StreamIdBlocked(StreamIdBlockedFrame(id))
StreamIdBlocked(id) == [type |-> "StreamIdBlocked", id |-> id]

\* the category an id belongs to
Category(id) == id % 4

\* ----------------------------------------------------------------- state
VARIABLES
    side,       \* Inner.side
    task,       \* Inner.task: TRUE when Some(task)
    queue,      \* Inner.queue: sequence of frames
    streams,    \* Inner.streams: function from the ids present to Stream
    open,       \* Inner.open: [0..3 -> OpenStreams]
    results,    \* the futures returned by request_stream, in lock order
    notifies,   \* number of task.notify() calls made so far
    drained,    \* the frames returned by queued() so far, in order
    allocs,     \* the calls of init_send so far: direction and return value
    nops,       \* number of method calls made so far
    last,       \* the last method called, its argument and what it returned
    budget,     \* number of method calls the callers make in all
    frame,      \* codec: the Frame value handed to encode
    buf,        \* codec: the bytes of the buffer handed to decode
    decoded,    \* codec: what Frame::decode made of buf
    stage,      \* codec: "idle", "frame", "bytes" or "done"
    debug       \* codec: TRUE in a build with debug assertions

registryVars == <<side, task, queue, streams, open, results, notifies, drained,
                  allocs, nops, last, budget>>

codecVars == <<frame, buf, decoded, stage, debug>>

vars == <<registryVars, codecVars>>

\* no frame, and no result of decode
NoFrame == [type |-> "None"]

NoResult == [ok |-> FALSE, frame |-> NoFrame, rest |-> <<>>]

\* the codec is not in use
CodecIdle ==
    /\ frame = NoFrame
    /\ buf = <<>>
    /\ decoded = NoResult
    /\ stage = "idle"
    /\ debug = FALSE

\* variant of Streams::new: each side seeds the bidirectional category of its bit
NewOpenSeedsOwnSide(s) ==
    [c \in 0..3 |->
        IF c = SideToBit(s)
        THEN [OpenStreamsNew EXCEPT !.next = c]
        ELSE OpenStreamsNew]

\* Streams::new(side): only a Client seeds open[0].next
NewOpen(s) ==
    [c \in 0..3 |->
        IF s = "Client" /\ c = 0
        THEN [OpenStreamsNew EXCEPT !.next = 0]
        ELSE OpenStreamsNew]

\* the registry as Streams::new(s) leaves it
Fresh(s) ==
    /\ side = s
    /\ task = FALSE
    /\ queue = <<>>
    /\ streams = << >>
    /\ open = NewOpen(side)
    /\ results = <<>>
    /\ notifies = 0
    /\ drained = <<>>
    /\ allocs = <<>>
    /\ nops = 0
    /\ last = [op |-> "new", arg |-> None, ret |-> None]

Init ==
    /\ \E s \in Sides : Fresh(s)
    /\ budget = MaxOps
    /\ CodecIdle

\* HashMap::insert(id, Stream::new()): adds the entry or replaces it
Insert(m, id) == [k \in (DOMAIN m) \cup {id} |-> IF k = id THEN StreamNew ELSE m[k]]

\* one more method call, while the budget of calls lasts
Tick == nops < budget /\ nops' = nops + 1 /\ UNCHANGED <<budget, codecVars>>

\* ------------------------------------------------------------- operations
\* Streams::set_task
SetTask ==
    /\ task' = TRUE
    /\ Tick
    /\ last' = [op |-> "set_task", arg |-> None, ret |-> None]
    /\ UNCHANGED <<side, queue, streams, open, results, notifies, drained, allocs>>

\* variant of request_stream that queues its frame at the front
PushFront(q, f) == <<f>> \o q

\* VecDeque::push_back
PushBack(q, f) == Append(q, f)

\* Streams::queued: pop_front
Queued ==
    /\ IF queue = <<>>
       THEN /\ last' = [op |-> "queued", arg |-> None, ret |-> None]
            /\ UNCHANGED <<queue, drained>>
       ELSE /\ last' = [op |-> "queued", arg |-> None, ret |-> Head(queue).id]
            /\ queue' = Tail(queue)
            /\ drained' = Append(drained, Head(queue))
    /\ Tick
    /\ UNCHANGED <<side, task, streams, open, results, notifies, allocs>>

\* variant of init_send that never exhausts a category
AdvanceNextUnlimited(id, max) == id + 4

\* variant of init_send that forgets to advance next
AdvanceNextStuck(id, max) == IF id + 4 < max THEN id ELSE None

\* the next a category is left with once init_send has handed out id
AdvanceNext(id, max) == IF id + 4 < max THEN id + 4 ELSE None

\* Streams::init_send
InitSend(dir) ==
    LET stype == SideToBit(side) + DirToBit(dir)
        next == open[stype].next
    IN  /\ open' = IF next # None
                   THEN [open EXCEPT ![stype].next = AdvanceNext(next, open[stype].max)]
                   ELSE open
        /\ streams' = IF next # None THEN Insert(streams, next) ELSE streams
        /\ allocs' = Append(allocs, [dir |-> dir, ret |-> next])
        /\ Tick
        /\ last' = [op |-> "init_send", arg |-> DirToBit(dir), ret |-> next]
        /\ UNCHANGED <<side, task, queue, results, notifies, drained>>

\* variant of update_max_id that only ever raises a limit
SetMaxMonotonic(o, id) ==
    IF id > o[Category(id)].max THEN [o EXCEPT ![Category(id)].max = id] ELSE o

\* the assignment of update_max_id
SetMax(o, id) == [o EXCEPT ![Category(id)].max = id]

\* Streams::update_max_id
UpdateMaxId(id) ==
    /\ open' = SetMax(open, id)
    /\ Tick
    /\ last' = [op |-> "update_max_id", arg |-> id, ret |-> None]
    /\ UNCHANGED <<side, task, queue, streams, results, notifies, drained, allocs>>

\* variant of received that also refuses the id equal to max
ReceivedCreatesBelowMax(id) == id \notin DOMAIN streams /\ ~(id >= open[Category(id)].max)

\* the stream entry received(id) creates: none when one exists or id > max
ReceivedCreates(id) == id \notin DOMAIN streams /\ ~(id > open[Category(id)].max)

\* what received(id) returns
ReceivedRet(id) ==
    IF id \in DOMAIN streams THEN id
    ELSE IF id > open[Category(id)].max THEN None ELSE id

\* Streams::received
Received(id) ==
    /\ streams' = IF ReceivedCreates(id) THEN Insert(streams, id) ELSE streams
    /\ Tick
    /\ last' = [op |-> "received", arg |-> id, ret |-> ReceivedRet(id)]
    /\ UNCHANGED <<side, task, queue, open, results, notifies, drained, allocs>>

\* variants of request_stream's test: off by one, and inverted
BlockedAtMax(id) == id >= open[Category(id)].max

BlockedInverted(id) == id < open[Category(id)].max

\* request_stream's test: the id is beyond what the peer has advertised
Blocked(id) == id > open[Category(id)].max

\* variant of request_stream that forgets to wake the task
NotifySkipped(t, n) == n

\* if let Some(task) = me.task { task.notify() }
Notify(t, n) == IF t THEN n + 1 ELSE n

\* Streams::request_stream: the future is a oneshot receiver when blocked
\* (its sender is parked in open[..].updates) and future::ok otherwise
RequestStream(id) ==
    LET n == Len(results) + 1 IN
    /\ IF Blocked(id)
       THEN /\ open' = [open EXCEPT ![Category(id)].updates = Append(@, n)]
            /\ queue' = PushBack(queue, StreamIdBlocked(id))
            /\ notifies' = Notify(task, notifies)
            /\ results' = Append(results, [id |-> id, state |-> "pending",
                                           maxAtCall |-> open[Category(id)].max])
       ELSE /\ results' = Append(results, [id |-> id, state |-> "ok",
                                           maxAtCall |-> open[Category(id)].max])
            /\ UNCHANGED <<open, queue, notifies>>
    /\ Tick
    /\ last' = [op |-> "request_stream", arg |-> id, ret |-> n]
    /\ UNCHANGED <<side, task, streams, drained, allocs>>

\* StreamRef::get_offset, on a handle for id
GetOffset(id) ==
    /\ id \in DOMAIN streams
    /\ Tick
    /\ last' = [op |-> "get_offset", arg |-> id, ret |-> streams[id].offset]
    /\ UNCHANGED <<side, task, queue, streams, open, results, notifies, drained, allocs>>

\* StreamRef::set_offset, on a handle for id
SetOffset(id, new) ==
    /\ id \in DOMAIN streams
    /\ streams' = [streams EXCEPT ![id].offset = new]
    /\ Tick
    /\ last' = [op |-> "set_offset", arg |-> id, ret |-> None]
    /\ UNCHANGED <<side, task, queue, open, results, notifies, drained, allocs>>

Next ==
    \/ SetTask
    \/ Queued
    \/ \E dir \in Dirs : InitSend(dir)
    \/ \E id \in Ids : UpdateMaxId(id)
    \/ \E id \in Ids : Received(id)
    \/ \E id \in Ids : RequestStream(id)
    \/ \E id \in Ids : GetOffset(id)
    \/ \E id \in Ids, new \in Offsets : SetOffset(id, new)

Spec == Init /\ [][Next]_vars

\* the callers keep calling while the budget of calls lasts
LiveSpec == Init /\ [][Next]_vars /\ WF_vars(Next)

\* the same registry with one more call in the budget
DeepInit ==
    /\ \E s \in Sides : Fresh(s)
    /\ budget = MaxOps + 1
    /\ CodecIdle

DeepSpec == DeepInit /\ [][Next]_vars

\* ------------------------------------------------------------ frame codec
\* A byte is a number in 0..255 and a buffer a sequence of bytes.  All the
\* integers of the model are below 2^31, so a cast to u32 or u64 keeps them.

\* n bytes of v, most significant first (put_u16_be, put_u32_be)
RECURSIVE BigEndian(_, _)
BigEndian(v, n) ==
    IF n = 0 THEN <<>> ELSE Append(BigEndian(v \div 256, n - 1), v % 256)

\* the number the bytes bs spell, most significant first
RECURSIVE FromBigEndian(_)
FromBigEndian(bs) ==
    IF bs = <<>> THEN 0
    ELSE 256 * FromBigEndian(SubSeq(bs, 1, Len(bs) - 1)) + bs[Len(bs)]

\* VarLen::buf_len (codec.rs): 1, 2, 4 or 8 bytes by magnitude
VarLenBufLen(v) ==
    IF v <= 63 THEN 1
    ELSE IF v <= 16383 THEN 2
    ELSE IF v <= 1073741823 THEN 4
    ELSE 8

\* VarLen::encode (codec.rs): the two top bits of the first byte tell the
\* width, the rest is the value, most significant byte first
VarLenEncode(v) ==
    LET n == VarLenBufLen(v) IN
    IF n = 1 THEN <<v>>
    ELSE IF n = 2 THEN <<64 + (v \div 256)>> \o BigEndian(v, 1)
    ELSE IF n = 4 THEN <<128 + (v \div 16777216)>> \o BigEndian(v, 3)
    ELSE <<192, 0, 0, 0>> \o BigEndian(v, 4)

\* a read past the end of the buffer panics
VarLenAbort == [ok |-> FALSE, val |-> 0, rest |-> <<>>]

\* VarLen::decode (codec.rs)
VarLenDecode(b) ==
    IF b = <<>> THEN VarLenAbort
    ELSE LET w == b[1] \div 64
             n == IF w = 0 THEN 1 ELSE IF w = 1 THEN 2 ELSE IF w = 2 THEN 4 ELSE 8
         IN  IF Len(b) < n THEN VarLenAbort
             ELSE [ok |-> TRUE,
                   val |-> FromBigEndian(<<b[1] % 64>> \o SubSeq(b, 2, n)),
                   rest |-> SubSeq(b, n + 1, Len(b))]

\* impl BufLen for Option<VarLen> (codec.rs): nothing for None
OptionVarLenBufLen(o) == IF o = None THEN 0 ELSE VarLenBufLen(o)

\* n zero bytes: vec![0; n]
RECURSIVE Zeros(_)
Zeros(n) == IF n = 0 THEN <<>> ELSE <<0>> \o Zeros(n - 1)

\* the bit of mask m (a power of two) in the byte b: b & m > 0
Bit(b, m) == (b \div m) % 2 = 1

\* variant of StreamFrame::buf_len that always counts an offset field
StreamBufLenWithOffset(f) ==
    1 + VarLenBufLen(f.id) + VarLenBufLen(f.offset)
      + OptionVarLenBufLen(f.len) + Len(f.data)

\* impl BufLen for StreamFrame
StreamBufLen(f) ==
    1 + VarLenBufLen(f.id)
      + (IF f.offset > 0 THEN VarLenBufLen(f.offset) ELSE 0)
      + OptionVarLenBufLen(f.len) + Len(f.data)

\* variant of StreamFrame::encode that flags and writes every offset
StreamEncodeEveryOffset(f) ==
    <<16 + 4 + (IF f.len # None THEN 2 ELSE 0) + (IF f.fin THEN 1 ELSE 0)>>
    \o VarLenEncode(f.id)
    \o VarLenEncode(f.offset)
    \o (IF f.len # None THEN VarLenEncode(f.len) ELSE <<>>)
    \o f.data

\* StreamFrame::encode
StreamEncode(f) ==
    LET has_offset == IF f.offset > 0 THEN 4 ELSE 0
        has_len == IF f.len # None THEN 2 ELSE 0
        is_fin == IF f.fin THEN 1 ELSE 0
    IN  <<16 + has_offset + has_len + is_fin>>
        \o VarLenEncode(f.id)
        \o (IF f.offset > 0 THEN VarLenEncode(f.offset) ELSE <<>>)
        \o (IF f.len # None THEN VarLenEncode(f.len) ELSE <<>>)
        \o f.data

\* the varints of the block lengths, in order: Ack::value of each block
RECURSIVE BlocksEncode(_)
BlocksEncode(bl) ==
    IF bl = <<>> THEN <<>>
    ELSE VarLenEncode(Head(bl).value) \o BlocksEncode(Tail(bl))

RECURSIVE BlocksBufLen(_)
BlocksBufLen(bl) ==
    IF bl = <<>> THEN 0
    ELSE VarLenBufLen(Head(bl).value) + BlocksBufLen(Tail(bl))

\* impl BufLen for AckFrame
AckBufLen(f) ==
    1 + VarLenBufLen(f.largest) + VarLenBufLen(f.ack_delay)
      + VarLenBufLen(Len(f.blocks) - 1) + BlocksBufLen(f.blocks)

\* AckFrame::encode
AckEncode(f) ==
    <<13>> \o VarLenEncode(f.largest) \o VarLenEncode(f.ack_delay)
           \o VarLenEncode(Len(f.blocks) - 1) \o BlocksEncode(f.blocks)

\* impl BufLen for CloseFrame
CloseBufLen(f) == 2 + VarLenBufLen(Len(f.reason)) + Len(f.reason)

\* CloseFrame::encode: no type byte of its own
CloseEncode(f) == BigEndian(f.code, 2) \o VarLenEncode(Len(f.reason)) \o f.reason

\* impl BufLen for PathFrame
PathBufLen(f) == 8

\* PathFrame::encode
PathEncode(f) == f.bytes

\* impl BufLen for StreamIdBlockedFrame
StreamIdBlockedBufLen(f) == VarLenBufLen(f.id)

\* StreamIdBlockedFrame::encode
StreamIdBlockedEncode(f) == VarLenEncode(f.id)

\* impl BufLen for PaddingFrame
PaddingBufLen(f) == f.count

\* PaddingFrame::encode
PaddingEncode(f) == Zeros(f.count)

\* impl BufLen for Frame
FrameBufLen(f) ==
    CASE f.type = "Ack" -> AckBufLen(f)
      [] f.type = "ApplicationClose" -> 1 + CloseBufLen(f)
      [] f.type = "ConnectionClose" -> 1 + CloseBufLen(f)
      [] f.type = "Padding" -> PaddingBufLen(f)
      [] f.type = "PathChallenge" -> 1 + PathBufLen(f)
      [] f.type = "PathResponse" -> 1 + PathBufLen(f)
      [] f.type = "Ping" -> 1
      [] f.type = "Stream" -> StreamBufLen(f)
      [] f.type = "StreamIdBlocked" -> 1 + StreamIdBlockedBufLen(f)

\* Frame::encode
FrameEncode(f) ==
    CASE f.type = "Ack" -> AckEncode(f)
      [] f.type = "ApplicationClose" -> <<3>> \o CloseEncode(f)
      [] f.type = "ConnectionClose" -> <<2>> \o CloseEncode(f)
      [] f.type = "Padding" -> PaddingEncode(f)
      [] f.type = "PathChallenge" -> <<14>> \o PathEncode(f)
      [] f.type = "PathResponse" -> <<15>> \o PathEncode(f)
      [] f.type = "Ping" -> <<7>>
      [] f.type = "Stream" -> StreamEncode(f)
      [] f.type = "StreamIdBlocked" -> <<10>> \o StreamIdBlockedEncode(f)

\* decode panicked: no frame
Abort == [ok |-> FALSE, frame |-> [type |-> "Abort"], rest |-> <<>>]

\* variant of StreamFrame::decode that reports the length it inferred
StreamDecodeInferredLen(b) ==
    LET first == b[1]
        id == VarLenDecode(Tail(b))
        offset == IF Bit(first, 4) THEN VarLenDecode(id.rest)
                  ELSE [ok |-> id.ok, val |-> 0, rest |-> id.rest]
        len == IF Bit(first, 2) THEN VarLenDecode(offset.rest)
               ELSE [ok |-> offset.ok, val |-> Len(offset.rest), rest |-> offset.rest]
    IN  IF ~id.ok \/ ~offset.ok \/ ~len.ok \/ Len(len.rest) < len.val THEN Abort
        ELSE [ok |-> TRUE,
              frame |-> [type |-> "Stream",
                         id |-> id.val,
                         fin |-> Bit(first, 1),
                         offset |-> offset.val,
                         len |-> len.val,
                         data |-> SubSeq(len.rest, 1, len.val)],
              rest |-> SubSeq(len.rest, len.val + 1, Len(len.rest))]

\* StreamFrame::decode
StreamDecode(b) ==
    LET first == b[1]
        id == VarLenDecode(Tail(b))
        offset == IF Bit(first, 4) THEN VarLenDecode(id.rest)
                  ELSE [ok |-> id.ok, val |-> 0, rest |-> id.rest]
        len == IF Bit(first, 2) THEN VarLenDecode(offset.rest)
               ELSE [ok |-> offset.ok, val |-> Len(offset.rest), rest |-> offset.rest]
    IN  IF ~id.ok \/ ~offset.ok \/ ~len.ok \/ Len(len.rest) < len.val THEN Abort
        ELSE [ok |-> TRUE,
              frame |-> [type |-> "Stream",
                         id |-> id.val,
                         fin |-> Bit(first, 1),
                         offset |-> offset.val,
                         len |-> IF Bit(first, 2) THEN len.val ELSE None,
                         data |-> SubSeq(len.rest, 1, len.val)],
              rest |-> SubSeq(len.rest, len.val + 1, Len(len.rest))]

\* variant of the loop of AckFrame::decode that starts with a Gap
RECURSIVE BlocksDecodeGapFirst(_, _, _)
BlocksDecodeGapFirst(b, i, count) ==
    IF i > count THEN [ok |-> TRUE, blocks |-> <<>>, rest |-> b]
    ELSE LET v == VarLenDecode(b)
             more == BlocksDecodeGapFirst(v.rest, i + 1, count)
         IN  IF ~v.ok \/ ~more.ok THEN [ok |-> FALSE, blocks |-> <<>>, rest |-> <<>>]
             ELSE [ok |-> TRUE,
                   blocks |-> <<[tag |-> IF i % 2 = 0 THEN "Gap" ELSE "Ack",
                                 value |-> v.val]>> \o more.blocks,
                   rest |-> more.rest]

\* the loop of AckFrame::decode: blocks i..count, read from b
RECURSIVE BlocksDecode(_, _, _)
BlocksDecode(b, i, count) ==
    IF i > count THEN [ok |-> TRUE, blocks |-> <<>>, rest |-> b]
    ELSE LET v == VarLenDecode(b)
             more == BlocksDecode(v.rest, i + 1, count)
         IN  IF ~v.ok \/ ~more.ok THEN [ok |-> FALSE, blocks |-> <<>>, rest |-> <<>>]
             ELSE [ok |-> TRUE,
                   blocks |-> <<[tag |-> IF i % 2 = 0 THEN "Ack" ELSE "Gap",
                                 value |-> v.val]>> \o more.blocks,
                   rest |-> more.rest]

\* AckFrame::decode; dbg: debug_assert_eq!(count % 2, 0) is compiled in
AckDecode(b, dbg) ==
    LET largest == VarLenDecode(Tail(b))
        ack_delay == VarLenDecode(largest.rest)
        count == VarLenDecode(ack_delay.rest)
        blocks == BlocksDecode(count.rest, 0, count.val)
    IN  IF ~largest.ok \/ ~ack_delay.ok \/ ~count.ok THEN Abort
        ELSE IF dbg /\ count.val % 2 # 0 THEN Abort
        ELSE IF ~blocks.ok THEN Abort
        ELSE [ok |-> TRUE,
              frame |-> [type |-> "Ack",
                         largest |-> largest.val,
                         ack_delay |-> ack_delay.val,
                         blocks |-> blocks.blocks],
              rest |-> blocks.rest]

\* the width of the UTF-8 sequence a first byte announces; 0 for a byte
\* that starts none (a continuation byte, 0xc0, 0xc1, 0xf5 and above)
Utf8CharWidth(v) ==
    IF v < 128 THEN 1
    ELSE IF v \in 194..223 THEN 2
    ELSE IF v \in 224..239 THEN 3
    ELSE IF v \in 240..244 THEN 4
    ELSE 0

\* the values the second byte of a sequence may take after the first byte v:
\* no overlong form, no surrogate, nothing above U+10FFFF
Utf8Second(v) ==
    IF v = 224 THEN 160..191
    ELSE IF v = 237 THEN 128..159
    ELSE IF v = 240 THEN 144..191
    ELSE IF v = 244 THEN 128..143
    ELSE 128..191

\* str::from_utf8(bs).is_ok(): bs is a run of well-formed UTF-8 sequences
RECURSIVE ValidUtf8(_)
ValidUtf8(bs) ==
    IF bs = <<>> THEN TRUE
    ELSE LET w == Utf8CharWidth(bs[1]) IN
         /\ w > 0
         /\ Len(bs) >= w
         /\ w >= 2 => bs[2] \in Utf8Second(bs[1])
         /\ \A i \in 3..w : bs[i] \in 128..191
         /\ ValidUtf8(SubSeq(bs, w + 1, Len(bs)))

\* CloseFrame::decode, the type byte being consumed by the caller
CloseDecode(b, type) ==
    LET len == VarLenDecode(SubSeq(b, 3, Len(b))) IN
    IF Len(b) < 2 \/ ~len.ok \/ Len(len.rest) < len.val THEN Abort
    ELSE IF ~ValidUtf8(SubSeq(len.rest, 1, len.val)) THEN Abort
    ELSE [ok |-> TRUE,
          frame |-> [type |-> type,
                     code |-> FromBigEndian(SubSeq(b, 1, 2)),
                     reason |-> SubSeq(len.rest, 1, len.val)],
          rest |-> SubSeq(len.rest, len.val + 1, Len(len.rest))]

\* PathFrame::decode, the type byte being consumed by the caller
PathDecode(b, type) ==
    IF Len(b) < 8 THEN Abort
    ELSE [ok |-> TRUE,
          frame |-> [type |-> type, bytes |-> SubSeq(b, 1, 8)],
          rest |-> SubSeq(b, 9, Len(b))]

\* StreamIdBlockedFrame::decode, the type byte being consumed by the caller
StreamIdBlockedDecode(b) ==
    LET id == VarLenDecode(b) IN
    IF ~id.ok THEN Abort
    ELSE [ok |-> TRUE, frame |-> StreamIdBlocked(id.val), rest |-> id.rest]

\* take_while(|b| **b == 0).count()
RECURSIVE LeadingZeros(_)
LeadingZeros(b) ==
    IF b = <<>> \/ Head(b) # 0 THEN 0 ELSE 1 + LeadingZeros(Tail(b))

\* variant of PaddingFrame::decode that does not count the type byte
PaddingDecodeAfterType(b) ==
    LET size == LeadingZeros(Tail(b)) IN
    [ok |-> TRUE,
     frame |-> [type |-> "Padding", count |-> size],
     rest |-> SubSeq(b, size + 2, Len(b))]

\* PaddingFrame::decode: the type byte is the first byte of the padding
PaddingDecode(b) ==
    LET size == LeadingZeros(b) IN
    [ok |-> TRUE,
     frame |-> [type |-> "Padding", count |-> size],
     rest |-> SubSeq(b, size + 1, Len(b))]

\* variant of the match of Frame::decode with the two path types swapped
FrameTypeOfPathSwapped(v) ==
    IF v >= 16 THEN "Stream"
    ELSE IF v = 2 THEN "ConnectionClose"
    ELSE IF v = 3 THEN "ApplicationClose"
    ELSE IF v = 7 THEN "Ping"
    ELSE IF v = 10 THEN "StreamIdBlocked"
    ELSE IF v = 13 THEN "Ack"
    ELSE IF v = 14 THEN "PathResponse"
    ELSE IF v = 15 THEN "PathChallenge"
    ELSE IF v = 0 THEN "Padding"
    ELSE "Unimplemented"

\* the arms of the match of Frame::decode, in their order
FrameTypeOf(v) ==
    IF v >= 16 THEN "Stream"
    ELSE IF v = 2 THEN "ConnectionClose"
    ELSE IF v = 3 THEN "ApplicationClose"
    ELSE IF v = 7 THEN "Ping"
    ELSE IF v = 10 THEN "StreamIdBlocked"
    ELSE IF v = 13 THEN "Ack"
    ELSE IF v = 14 THEN "PathChallenge"
    ELSE IF v = 15 THEN "PathResponse"
    ELSE IF v = 0 THEN "Padding"
    ELSE "Unimplemented"

\* Frame::decode: buf.bytes()[0] panics on an empty buffer
FrameDecode(b, dbg) ==
    IF b = <<>> THEN Abort
    ELSE LET type == FrameTypeOf(b[1]) IN
         CASE type = "Stream" -> StreamDecode(b)
           [] type \in {"ConnectionClose", "ApplicationClose"} -> CloseDecode(Tail(b), type)
           [] type = "Ping" -> [ok |-> TRUE, frame |-> [type |-> "Ping"], rest |-> Tail(b)]
           [] type = "StreamIdBlocked" -> StreamIdBlockedDecode(Tail(b))
           [] type = "Ack" -> AckDecode(b, dbg)
           [] type \in {"PathChallenge", "PathResponse"} -> PathDecode(Tail(b), type)
           [] type = "Padding" -> PaddingDecode(b)
           [] type = "Unimplemented" -> Abort

\* ----------------------------------------------------- codec: the inputs
\* the sequences over S of up to n elements
SeqsUpTo(S, n) == UNION {[1..k -> S] : k \in 0..n}

\* values at the edges of the four widths of a variable-length integer
VarInts == {0, 63, 64, 16383, 16384, 1073741823, 1073741824}

\* StreamFrame values: the len field absent, equal to data.len() or beyond it
StreamFrames ==
    {[type |-> "Stream", id |-> id, fin |-> fin, offset |-> offset,
      len |-> IF l = 0 THEN None ELSE Len(data) + l - 1, data |-> data] :
        id \in VarInts, fin \in BOOLEAN, offset \in {0, 1, 16384},
        l \in 0..2, data \in SeqsUpTo({0, 255}, MaxData)}

\* AckFrame values: any tags, at least one block
AckFrames ==
    {[type |-> "Ack", largest |-> largest, ack_delay |-> ack_delay, blocks |-> blocks] :
        largest \in {0, 485971334}, ack_delay \in {0, 64},
        blocks \in SeqsUpTo([tag : {"Ack", "Gap"}, value : {0, 64}], MaxBlocks) \ {<<>>}}

\* the bytes of String values: ASCII text of up to MaxData bytes, and one
\* character of each longer width, alone and between ASCII characters
Reasons ==
    SeqsUpTo({65, 122}, MaxData)
    \cup {pre \o ch \o post :
            pre \in {<<>>, <<65>>}, post \in {<<>>, <<122>>},
            ch \in {<<195, 169>>, <<226, 130, 172>>, <<240, 159, 152, 128>>}}

\* CloseFrame values under both variants
CloseFrames ==
    {[type |-> type, code |-> code, reason |-> reason] :
        type \in {"ConnectionClose", "ApplicationClose"},
        code \in {0, 258, 65535}, reason \in Reasons}

\* PathFrame values under both variants
PathFrames ==
    {[type |-> type, bytes |-> bytes] :
        type \in {"PathChallenge", "PathResponse"},
        bytes \in {Zeros(8), <<1, 2, 3, 4, 5, 6, 7, 8>>,
                   <<255, 255, 255, 255, 255, 255, 255, 255>>}}

Frames ==
    StreamFrames \cup AckFrames \cup CloseFrames \cup PathFrames
    \cup {StreamIdBlocked(id) : id \in VarInts}
    \cup {[type |-> "Padding", count |-> n] : n \in 0..MaxPad}
    \cup {[type |-> "Ping"]}

\* byte strings at the edges of UTF-8: well-formed sequences of each width,
\* and a stray continuation byte, overlong forms, a surrogate, a value above
\* U+10FFFF, sequences cut short and bytes that start no sequence
Utf8Probes ==
    {<<195, 169>>, <<226, 130, 172>>, <<240, 159, 152, 128>>,
     <<194, 128>>, <<223, 191>>, <<224, 160, 128>>, <<237, 159, 191>>,
     <<238, 128, 128>>, <<240, 144, 128, 128>>, <<244, 143, 191, 191>>,
     <<65, 195, 169>>, <<195, 169, 122>>,
     <<128>>, <<191>>, <<192, 128>>, <<193, 191>>, <<224, 159, 191>>,
     <<237, 160, 128>>, <<240, 143, 191, 191>>, <<244, 144, 128, 128>>,
     <<245, 128, 128, 128>>, <<255>>, <<195>>, <<226, 130>>,
     <<240, 159, 152>>, <<195, 65>>, <<226, 130, 65>>, <<65, 128>>,
     <<195, 169, 255>>}

\* buffers that do not come from encode: every first byte, alone and ahead
\* of zero bytes; runs of padding ahead of another frame; close frames whose
\* reason is any of the probes, alone and ahead of one more byte
RawBuffers ==
    {<<v>> : v \in 0..255}
    \cup {<<v>> \o Zeros(10) : v \in 0..255}
    \cup {Zeros(k) \o <<v>> \o tail :
            k \in 1..MaxPad, v \in {1, 7, 255}, tail \in {<<>>, <<0>>, <<0, 9>>}}
    \cup {<<t>> \o code \o <<Len(r)>> \o r \o tail :
            t \in {2, 3}, code \in {<<0, 0>>, <<1, 2>>},
            r \in Utf8Probes, tail \in {<<>>, <<7>>}}

\* ------------------------------------------------- codec: the specification
\* a frame to encode and decode again, or a buffer to decode; the registry
\* is not called
CodecInit ==
    /\ Fresh("Client")
    /\ budget = 0
    /\ debug \in BOOLEAN
    /\ decoded = NoResult
    /\ \/ stage = "frame" /\ frame \in Frames /\ buf = <<>>
       \/ stage = "bytes" /\ frame = NoFrame /\ buf \in RawBuffers

\* Frame::encode into an empty buffer
Encode ==
    /\ stage = "frame"
    /\ buf' = FrameEncode(frame)
    /\ stage' = "bytes"
    /\ UNCHANGED <<registryVars, frame, decoded, debug>>

\* Frame::decode from a cursor at the start of the buffer
Decode ==
    /\ stage = "bytes"
    /\ decoded' = FrameDecode(buf, debug)
    /\ stage' = "done"
    /\ UNCHANGED <<registryVars, frame, buf, debug>>

CodecNext == Encode \/ Decode

CodecSpec == CodecInit /\ [][CodecNext]_vars

\* ----------------------------------------------------------------- claims
\* the first two calls on the registry were init_send(Dir::Bidi), on a Client
TwoBidiAllocsOnFreshClient ==
    /\ side = "Client"
    /\ nops = 2
    /\ Len(allocs) = 2
    /\ allocs[1].dir = "Bidi"
    /\ allocs[2].dir = "Bidi"

\* C1 as stated: on a fresh Client registry the first init_send(Dir::Bidi)
\* returns stream id 0 and the second returns stream id 4.
C1_SecondAllocationIsFour ==
    TwoBidiAllocsOnFreshClient => allocs[1].ret = 0 /\ allocs[2].ret = 4

\* C1 amended: on a fresh Client registry the first init_send(Dir::Bidi)
\* returns stream id 0 and the second returns nothing, max of category 0
\* being still 0.
C1_SecondAllocationIsNone ==
    TwoBidiAllocsOnFreshClient =>
        /\ allocs[1].ret = 0
        /\ allocs[2].ret = None
        /\ DOMAIN streams = {0}

C1_Witness == TwoBidiAllocsOnFreshClient /\ last.op = "init_send"

\* the step is a call of the method op
Called(op) == last'.op = op /\ nops' = nops + 1

\* C2: received(id) on an id without a stream entry returns nothing and
\* leaves streams, queue and all categories unchanged when id > max of its
\* category, and otherwise creates exactly the entry for id, with offset 0,
\* and returns a handle for id.
C2_ReceivedEnforcesLimit ==
    [][(Called("received") /\ last'.arg \notin DOMAIN streams) =>
        LET id == last'.arg IN
        IF id > open[Category(id)].max
        THEN /\ last'.ret = None
             /\ streams' = streams
             /\ queue' = queue
             /\ open' = open
        ELSE /\ last'.ret = id
             /\ DOMAIN streams' = (DOMAIN streams) \cup {id}
             /\ streams'[id].offset = 0
             /\ \A k \in DOMAIN streams : streams'[k] = streams[k]
             /\ queue' = queue
             /\ open' = open]_vars

\* received accepted an id above 0, equal to the advertised max, next to
\* another stream
C2_Witness ==
    /\ last.op = "received"
    /\ last.ret = last.arg
    /\ last.arg > 0
    /\ last.arg = open[Category(last.arg)].max
    /\ Cardinality(DOMAIN streams) >= 2

\* C3: request_stream(id) with id > max of its category appends exactly one
\* StreamIdBlocked(id) frame to the queue, registers one waiter in that
\* category and returns a pending result; with id <= max it returns a
\* completed successful result, enqueues nothing and registers no waiter.
C3_RequestStreamBlocks ==
    [][Called("request_stream") =>
        LET id == last'.arg
            c == Category(id)
        IN  /\ Len(results') = Len(results) + 1
            /\ results'[Len(results')].id = id
            /\ \A d \in (0..3) \ {c} : open'[d].updates = open[d].updates
            /\ IF id > open[c].max
               THEN /\ queue' = Append(queue, StreamIdBlocked(id))
                    /\ Len(open'[c].updates) = Len(open[c].updates) + 1
                    /\ results'[Len(results')].state = "pending"
               ELSE /\ queue' = queue
                    /\ open'[c].updates = open[c].updates
                    /\ results'[Len(results')].state = "ok"]_vars

\* a second blocked request queued its frame behind the first, after the
\* limit of its category had been raised
C3_Witness ==
    /\ last.op = "request_stream"
    /\ Len(queue) = 2
    /\ queue[2].id = last.arg
    /\ open[Category(last.arg)].max > 0
    /\ results[Len(results)].state = "pending"

\* result i is pending and the last call was an update_max_id whose value
\* is in the category of the requested id and covers it
CoveredWhilePending(i) ==
    /\ i \in DOMAIN results
    /\ results[i].state = "pending"
    /\ last.op = "update_max_id"
    /\ Category(last.arg) = Category(results[i].id)
    /\ last.arg >= results[i].id

\* C4: a pending request_stream(id) result completes successfully once
\* update_max_id is later called with a value of the same category that is
\* >= id.
C4_UpdateResolvesPending ==
    \A i \in 1..MaxOps :
        CoveredWhilePending(i) ~> (i \in DOMAIN results /\ results[i].state = "ok")

\* the frames appended to the queue so far: those queued and those drained
Pushed == Len(queue) + Len(drained)

\* C5: while a task is registered the number of task.notify() wakes equals
\* the number of frames appended to the queue: a request_stream call that
\* enqueues a frame wakes the task once, and a call that enqueues nothing
\* wakes nobody.
C5_OneWakePerFrame ==
    [][/\ task => notifies' - notifies = Pushed' - Pushed
       /\ (~Called("request_stream") \/ Pushed' = Pushed) => notifies' = notifies]_vars

\* with a task registered, a blocked request woke it and a request within
\* the limit did not
C5_Witness ==
    /\ task
    /\ notifies = 1
    /\ Len(results) = 2
    /\ Pushed = 1
    /\ last.op = "request_stream"

\* the frames of the blocked request_stream calls, in the order of the calls
RECURSIVE BlockedFrames(_)
BlockedFrames(rs) ==
    IF rs = <<>> THEN <<>>
    ELSE LET rest == BlockedFrames(Tail(rs)) IN
         IF Head(rs).id > Head(rs).maxAtCall
         THEN <<StreamIdBlocked(Head(rs).id)>> \o rest
         ELSE rest

\* C6: the queue is FIFO and loss-free: the frames returned by queued(),
\* followed by those still queued, are the StreamIdBlocked frames of the
\* blocked request_stream calls in call order, each once, and queued()
\* returns nothing exactly when the queue is empty.
C6_QueueIsFifo ==
    /\ [](drained \o queue = BlockedFrames(results))
    /\ [][Called("queued") =>
            /\ (last'.ret = None) <=> (queue = <<>>)
            /\ queue # <<>> => /\ last'.ret = queue[1].id
                               /\ drained' = Append(drained, queue[1])
                               /\ queue' = Tail(queue)]_vars

\* queued returned the frame of the first of two blocked requests for
\* different ids, the second still being queued
C6_Witness ==
    /\ last.op = "queued"
    /\ Len(drained) = 1
    /\ Len(queue) = 1
    /\ last.ret = results[1].id
    /\ queue[1].id = results[2].id
    /\ results[1].id # results[2].id

\* C7: a category not seeded at construction never yields a local
\* allocation: whatever came before, init_send returns nothing and creates
\* no stream entry for every direction on a Server and for Dir::Uni on a
\* Client.
C7_UnseededNeverAllocates ==
    /\ [](\A i \in DOMAIN allocs :
            (side = "Server" \/ allocs[i].dir = "Uni") => allocs[i].ret = None)
    /\ [][(Called("init_send") /\ (side = "Server" \/ last'.arg = DirToBit("Uni"))) =>
            /\ last'.ret = None
            /\ streams' = streams
            /\ open' = open]_vars

\* init_send returned nothing on a Server whose bidirectional category had
\* its limit raised
C7_Witness ==
    /\ side = "Server"
    /\ last.op = "init_send"
    /\ last.arg = DirToBit("Bidi")
    /\ last.ret = None
    /\ open[1].max >= 5

\* C8: init_send on a category whose next is Some(id) returns a handle for
\* id, creates the entry for id and sets next to Some(id + 4) if
\* id + 4 <= max of the category and to None otherwise.
C8_NextAdvancesWithinMax ==
    [][Called("init_send") =>
        LET stype == SideToBit(side) + last'.arg
            id == open[stype].next
        IN  id # None =>
              /\ last'.ret = id
              /\ id \in DOMAIN streams'
              /\ open'[stype].next =
                    IF id + 4 <= open[stype].max THEN id + 4 ELSE None]_vars

\* C9: update_max_id(id) sets max of category id % 4 to id and leaves the
\* rest unchanged: the other categories' max, every next, every list of
\* waiters, the queue, the streams map, the task and the results.
C9_UpdateMaxOnlySetsMax ==
    [][Called("update_max_id") =>
        LET id == last'.arg IN
        /\ open'[Category(id)].max = id
        /\ \A c \in (0..3) \ {Category(id)} : open'[c].max = open[c].max
        /\ \A c \in 0..3 : /\ open'[c].next = open[c].next
                           /\ open'[c].updates = open[c].updates
        /\ UNCHANGED <<side, task, queue, streams, results, notifies>>]_vars

\* update_max_id raised a limit to cover the id of a blocked request: the
\* waiter is still parked, its result still pending and its frame still queued
C9_Witness ==
    /\ last.op = "update_max_id"
    /\ Len(results) = 1
    /\ results[1].state = "pending"
    /\ results[1].id <= last.arg
    /\ Category(results[1].id) = Category(last.arg)
    /\ open[Category(last.arg)].updates = <<1>>
    /\ queue = <<StreamIdBlocked(results[1].id)>>

\* C10: a request_stream result never completes spuriously or twice: a
\* result that is completed successfully belongs to a call made with
\* id <= max of its category, and a result that has left pending never
\* changes again.
C10_NoSpuriousCompletion ==
    /\ [](\A i \in DOMAIN results :
            /\ results[i].state \in {"pending", "ok"}
            /\ results[i].state = "ok" => results[i].id <= results[i].maxAtCall)
    /\ [][\A i \in DOMAIN results :
            /\ i \in DOMAIN results'
            /\ results[i].state # "pending" => results'[i] = results[i]]_vars

\* a request above 0 completed at once since the limit had been raised to
\* cover it, while an earlier one for the same category stays pending
C10_Witness ==
    /\ Len(results) = 2
    /\ results[1].state = "pending"
    /\ results[2].state = "ok"
    /\ results[2].id > 0
    /\ Category(results[1].id) = Category(results[2].id)

\* C17: a stream's offset is changed only by set_offset on a handle for
\* that stream: an entry starts with offset 0, get_offset returns the value
\* of the last set_offset for the id, whatever other calls are interleaved,
\* and entries are never removed or re-created.
C17_OffsetOnlyBySetOffset ==
    [][/\ \A id \in DOMAIN streams :
            /\ id \in DOMAIN streams'
            /\ streams'[id].offset # streams[id].offset =>
                    (Called("set_offset") /\ last'.arg = id)
       /\ \A id \in (DOMAIN streams') \ (DOMAIN streams) : streams'[id].offset = 0
       /\ Called("get_offset") => last'.ret = streams[last'.arg].offset]_vars

\* C18: every id init_send returns is within the advertised limit: when
\* init_send returns a handle for id, id <= max of category id % 4.
C18_AllocationWithinMax ==
    (last.op = "init_send" /\ last.ret # None) =>
        last.ret <= open[Category(last.ret)].max

\* the calls of init_send that returned a handle
Allocated == SelectSeq(allocs, LAMBDA a : a.ret # None)

\* C19: local allocations are unique and ordered: no two init_send calls
\* return the same id, every returned id is congruent modulo 4 to the index
\* of its category, and within a category each successful allocation
\* returns the id of the one before plus 4.
C19_AllocationsUniqueAndOrdered ==
    /\ \A i, j \in DOMAIN Allocated : i # j => Allocated[i].ret # Allocated[j].ret
    /\ \A i \in DOMAIN Allocated :
            Allocated[i].ret % 4 = SideToBit(side) + DirToBit(Allocated[i].dir)
    /\ \A i, j \in DOMAIN Allocated :
            (/\ i < j
             /\ Allocated[i].dir = Allocated[j].dir
             /\ \A k \in DOMAIN Allocated :
                    (i < k /\ k < j) => Allocated[k].dir # Allocated[i].dir)
            => Allocated[j].ret = Allocated[i].ret + 4

\* two init_send calls in a row returned handles, for ids 0 and 4
C19_Witness ==
    /\ Len(Allocated) = 2
    /\ Allocated[1].ret = 0
    /\ Allocated[2].ret = 4
    /\ last.op = "init_send"
    /\ DOMAIN streams = {0, 4}

\* ----------------------------------------------------------- codec claims
\* a frame was encoded and the bytes were decoded
Encoded == stage \in {"bytes", "done"} /\ frame.type # "None"

Decoded == stage = "done" /\ frame.type # "None"

\* the field constraints of the frame values: a present len is the length
\* of data; blocks has an odd length and alternates, starting with Ack
ValidFrame(f) ==
    /\ f.type = "Stream" => (f.len = None \/ f.len = Len(f.data))
    /\ f.type = "Ack" =>
            /\ Len(f.blocks) % 2 = 1
            /\ \A i \in DOMAIN f.blocks :
                    f.blocks[i].tag = IF i % 2 = 1 THEN "Ack" ELSE "Gap"

\* decode gave back the frame and consumed the whole buffer
RoundTrips == decoded.ok /\ decoded.frame = frame /\ decoded.rest = <<>>

\* C11 as stated: every valid frame of every variant, Padding with any
\* count included, is decoded from its encoding as an equal frame, the
\* whole buffer being consumed.
C11_RoundTripAnyPadding == (Decoded /\ ValidFrame(frame)) => RoundTrips

\* C11 amended: every valid frame of every variant, Padding with a count of
\* at least 1, is decoded from its encoding as an equal frame, the whole
\* buffer being consumed; Padding(0) encodes to no byte at all and decoding
\* the empty buffer aborts.
C11_RoundTrip ==
    (Decoded /\ ValidFrame(frame)) =>
        IF frame.type = "Padding" /\ frame.count = 0
        THEN buf = <<>> /\ ~decoded.ok
        ELSE RoundTrips

\* a stream frame with a two-byte id, an offset, a length and data made
\* the round trip
C11_Witness ==
    /\ Decoded
    /\ frame.type = "Stream"
    /\ frame.id = 16383
    /\ frame.offset = 16384
    /\ frame.len = 2
    /\ frame.fin
    /\ RoundTrips

\* C12: buf_len(f) is the number of bytes encode(f) appends, for every
\* frame of every variant.
C12_BufLenIsEncodedLength == Encoded => FrameBufLen(frame) = Len(buf)

\* a stream frame with an offset of four bytes and a length field: 13 bytes
C12_Witness ==
    /\ stage = "bytes"
    /\ frame.type = "Stream"
    /\ frame.id = 1073741824
    /\ frame.offset = 16384
    /\ frame.len = 1
    /\ Len(buf) = 15
    /\ FrameBufLen(frame) = 15

\* C13: a buffer of k >= 1 zero bytes followed by a non-zero byte decodes
\* to Padding(k), the cursor being left at the non-zero byte.
C13_PaddingRun ==
    stage = "done" =>
        \A k \in 1..(Len(buf) - 1) :
            ((\A i \in 1..k : buf[i] = 0) /\ buf[k + 1] # 0) =>
                /\ decoded.ok
                /\ decoded.frame = [type |-> "Padding", count |-> k]
                /\ decoded.rest = SubSeq(buf, k + 1, Len(buf))

\* three zero bytes ahead of a Ping and more
C13_Witness ==
    /\ stage = "done"
    /\ buf = <<0, 0, 0, 7, 0, 9>>
    /\ decoded.frame.type = "Padding"
    /\ decoded.frame.count = 3
    /\ decoded.rest = <<7, 0, 9>>

\* the optional length field of a stream frame, as bytes
LenField(f) == IF f.len # None THEN VarLenEncode(f.len) ELSE <<>>

\* C14: StreamFrame::encode sets bit 0x04 of the type byte and writes an
\* offset field iff offset > 0; decoding a stream frame whose type byte
\* has bit 0x04 clear yields offset 0 and consumes no offset field.
C14_OffsetOmittedWhenZero ==
    /\ (Encoded /\ frame.type = "Stream") =>
            /\ Bit(buf[1], 4) <=> frame.offset > 0
            /\ frame.offset > 0 =>
                    buf = <<buf[1]>> \o VarLenEncode(frame.id)
                          \o VarLenEncode(frame.offset) \o LenField(frame) \o frame.data
            /\ frame.offset = 0 =>
                    buf = <<buf[1]>> \o VarLenEncode(frame.id)
                          \o LenField(frame) \o frame.data
    /\ (stage = "done" /\ buf # <<>> /\ buf[1] >= 16 /\ ~Bit(buf[1], 4) /\ decoded.ok) =>
            /\ decoded.frame.offset = 0
            /\ Len(buf) - Len(decoded.rest) =
                    1 + VarLenBufLen(decoded.frame.id)
                      + (IF Bit(buf[1], 2) THEN VarLenBufLen(decoded.frame.len) ELSE 0)
                      + Len(decoded.frame.data)

\* a stream frame with offset 0, a length and data was encoded without the
\* bit and decoded with offset 0
C14_Witness ==
    /\ Decoded
    /\ frame.type = "Stream"
    /\ frame.offset = 0
    /\ frame.len = 2
    /\ buf[1] = 18
    /\ decoded.ok
    /\ decoded.frame.offset = 0
    /\ decoded.frame.data = frame.data

\* the frame type the first byte of a buffer stands for
TypeOfFirstByte(v) ==
    CASE v >= 16 -> "Stream"
      [] v = 0 -> "Padding"
      [] v = 2 -> "ConnectionClose"
      [] v = 3 -> "ApplicationClose"
      [] v = 7 -> "Ping"
      [] v = 10 -> "StreamIdBlocked"
      [] v = 13 -> "Ack"
      [] v = 14 -> "PathChallenge"
      [] v = 15 -> "PathResponse"
      [] OTHER -> "Abort"

\* C15: Frame::decode dispatches on the first byte: 0x10 and above is a
\* Stream frame, 0x00, 0x02, 0x03, 0x07, 0x0a, 0x0d, 0x0e, 0x0f are
\* Padding, ConnectionClose, ApplicationClose, Ping, StreamIdBlocked, Ack,
\* PathChallenge, PathResponse, and every other first byte aborts.  (A
\* buffer that ends before the frame does aborts whatever its first byte.)
C15_DispatchOnFirstByte ==
    (stage = "done" /\ buf # <<>>) =>
        /\ buf[1] \in {1, 4, 5, 6, 8, 9, 11, 12} => ~decoded.ok
        /\ decoded.frame.type \in {TypeOfFirstByte(buf[1]), "Abort"}
        /\ (Tail(buf) = Zeros(10) /\ TypeOfFirstByte(buf[1]) # "Abort") => decoded.ok
        /\ (Encoded /\ RoundTrips) => frame.type = TypeOfFirstByte(buf[1])

\* the first byte 0xff, ahead of zero bytes, was decoded as a Stream frame
C15_Witness ==
    /\ stage = "done"
    /\ buf = <<255>> \o Zeros(10)
    /\ decoded.ok
    /\ decoded.frame.type = "Stream"
    /\ decoded.frame.fin

\* the frame of tests::test_ack_round_trip and its bytes
TestAck ==
    [type |-> "Ack", largest |-> 485971334, ack_delay |-> 0,
     blocks |-> <<[tag |-> "Ack", value |-> 0]>>]

TestAckBytes == <<13, 156, 247, 85, 134, 0, 0, 0>>

\* AckFrame::encode wrote the type byte 0x0d, largest, ack_delay, the
\* number of blocks less one and the block lengths in order
AckWire ==
    (Encoded /\ frame.type = "Ack") =>
        LET largest == VarLenDecode(Tail(buf))
            ack_delay == VarLenDecode(largest.rest)
            count == VarLenDecode(ack_delay.rest)
        IN  /\ buf[1] = 13
            /\ largest.val = frame.largest
            /\ ack_delay.val = frame.ack_delay
            /\ count.val = Len(frame.blocks) - 1
            /\ Len(buf) = 1 + VarLenBufLen(frame.largest) + VarLenBufLen(frame.ack_delay)
                            + VarLenBufLen(Len(frame.blocks) - 1) + Len(count.rest)
            /\ frame = TestAck => buf = TestAckBytes

\* AckFrame::decode yielded as many blocks as were encoded, with the
\* lengths in wire order and the tags by position: Ack, Gap, Ack, ...
AckBlocksDecoded ==
    /\ decoded.ok
    /\ decoded.frame.type = "Ack"
    /\ Len(decoded.frame.blocks) = Len(frame.blocks)
    /\ \A i \in DOMAIN frame.blocks :
            decoded.frame.blocks[i] =
                [tag |-> IF i % 2 = 1 THEN "Ack" ELSE "Gap",
                 value |-> frame.blocks[i].value]

\* C16 as stated: AckFrame::encode writes 0x0d, largest, ack_delay,
\* blocks.len() - 1 and every block length in order; AckFrame::decode of a
\* block count n yields n + 1 blocks in wire order, tagged Ack at even and
\* Gap at odd indices, for every n.
C16_AckBlocksAnyCount ==
    /\ AckWire
    /\ (Decoded /\ frame.type = "Ack") => AckBlocksDecoded

\* C16 amended: the same for an even block count n; for an odd n a build
\* with debug assertions aborts at debug_assert_eq!(count % 2, 0), and a
\* build without them yields the n + 1 blocks.
C16_AckBlocksEvenCount ==
    /\ AckWire
    /\ (Decoded /\ frame.type = "Ack") =>
            IF debug /\ (Len(frame.blocks) - 1) % 2 # 0
            THEN ~decoded.ok
            ELSE AckBlocksDecoded

\* three blocks given as Ack, Ack, Gap came back as Ack, Gap, Ack in a
\* build with debug assertions
C16_Witness ==
    /\ Decoded
    /\ debug
    /\ frame.type = "Ack"
    /\ Len(frame.blocks) = 3
    /\ frame.blocks[2] = [tag |-> "Ack", value |-> 64]
    /\ frame.blocks[3].tag = "Gap"
    /\ decoded.ok
    /\ decoded.frame.blocks[2] = [tag |-> "Gap", value |-> 64]
    /\ decoded.frame.blocks[3].tag = "Ack"

====
